---- MODULE Spec2Model ----
(***************************************************************************)
(* PII redaction/restoration engine of the IEP compliance assistant        *)
(* (lib/pii-masking.ts), the chat route that uses it, and the wizard with  *)
(* its student-info form and its upload step.                              *)
(*                                                                         *)
(* Text is a sequence of one-character strings, so that case folding,      *)
(* substring search and regular-expression replacement are computed, not   *)
(* assumed.  A JavaScript object used as a map (PIIMappings) is a sequence *)
(* of <<key, value>> pairs in property-enumeration order.                  *)
(***************************************************************************)
EXTENDS Integers, Sequences, FiniteSets, TLC

(***************************************************************************)
(* Strings                                                                 *)
(***************************************************************************)

\* e, evaluated once, handed to F.
Bind(e, F(_)) == CHOOSE r \in {F(x) : x \in {e}} : TRUE

\* The sequence a function on 1..n is.
AsSeq(f) == f \o <<>>

\* A string literal as a sequence of characters.
Chars(s) == AsSeq([i \in 1..Len(s) |-> SubSeq(s, i, i)])

UpperLetters == Chars("ABCDEFGHIJKLMNOPQRSTUVWXYZ")
LowerLetters == Chars("abcdefghijklmnopqrstuvwxyz")
Digits == Chars("0123456789")

UpperSet == {UpperLetters[i] : i \in 1..26}
LowerSet == {LowerLetters[i] : i \in 1..26}
DigitSet == {Digits[i] : i \in 1..10}

LowerOf == [c \in UpperSet |-> LowerLetters[CHOOSE i \in 1..26 : UpperLetters[i] = c]]
UpperOf == [c \in LowerSet |-> UpperLetters[CHOOSE i \in 1..26 : LowerLetters[i] = c]]

toLowerChar(c) == IF c \in UpperSet THEN LowerOf[c] ELSE c
toUpperChar(c) == IF c \in LowerSet THEN UpperOf[c] ELSE c

\* String.prototype.toLowerCase / toUpperCase
toLowerCase(s) == AsSeq([i \in 1..Len(s) |-> toLowerChar(s[i])])
toUpperCase(s) == AsSeq([i \in 1..Len(s) |-> toUpperChar(s[i])])

\* Does pat occur in text at position i (1-based)?
MatchAt(text, pat, i) ==
    /\ i + Len(pat) - 1 <= Len(text)
    /\ \A k \in 1..Len(pat) : text[i + k - 1] = pat[k]

\* String.prototype.includes
includes(text, pat) == \E j \in 1..(Len(text) - Len(pat) + 1) : MatchAt(text, pat, j)

\* Case-insensitive occurrence.
includesIgnoreCase(text, pat) ==
    Bind(toLowerCase(text), LAMBDA t : Bind(toLowerCase(pat), LAMBDA q : includes(t, q)))

\* s.split(' ')[0]: the substring before the first space character.
splitFirst(s) ==
    IF \E i \in 1..Len(s) : s[i] = " "
    THEN SubSeq(s, 1, (CHOOSE i \in 1..Len(s) :
                          s[i] = " " /\ \A j \in 1..(i - 1) : s[j] # " ") - 1)
    ELSE s

\* The strings of a sequence, joined: those from lo to hi.
RECURSIVE ConcatRange(_, _, _)
ConcatRange(ss, lo, hi) ==
    IF lo > hi THEN <<>>
    ELSE IF lo = hi THEN ss[lo]
    ELSE ConcatRange(ss, lo, (lo + hi) \div 2) \o ConcatRange(ss, (lo + hi) \div 2 + 1, hi)

Concat(ss) == Bind(AsSeq(ss), LAMBDA s : ConcatRange(s, 1, Len(s)))

(***************************************************************************)
(* Regular expressions built from escapeRegExp, and String.replace         *)
(***************************************************************************)

RegExpSpecials == {".", "*", "+", "?", "^", "$", "{", "}", "(", ")", "|", "[", "]", "\\"}

\* escapeRegExp: every syntax character gets a backslash in front.
escapeRegExp(string) ==
    Concat([i \in 1..Len(string) |->
               IF string[i] \in RegExpSpecials THEN <<"\\", string[i]>> ELSE <<string[i]>>])

\* new RegExp(source): the literal a source made of ordinary characters
\* and backslash-escaped characters matches.  A character is escaped when
\* the run of backslashes in front of it has odd length.
Escaped(source, i) ==
    \E b \in 1..(i - 1) :
        /\ \A h \in b..(i - 1) : source[h] = "\\"
        /\ (b = 1 \/ source[b - 1] # "\\")
        /\ (i - b) % 2 = 1

RegExpLiteral(source) ==
    Concat([i \in 1..Len(source) |->
               IF source[i] = "\\" /\ ~Escaped(source, i) /\ i < Len(source)
               THEN <<>> ELSE <<source[i]>>])

\* The grave accent character.  A TLA+ string cannot hold it, so it is
\* written as this name; no other character is.
GraveAccent == "GRAVE"

\* GetSubstitution for a pattern without capture groups: $$ is a dollar,
\* $& the match, $ with a grave accent the text before the match, $ with
\* an apostrophe the text after it; any other dollar is literal.
RECURSIVE GetSubstitutionFrom(_, _, _, _, _)
GetSubstitutionFrom(repl, matched, before, after, i) ==
    IF i > Len(repl) THEN <<>>
    ELSE IF repl[i] = "$" /\ i < Len(repl) /\ repl[i + 1] \in {"$", "&", GraveAccent, "'"}
         THEN (CASE repl[i + 1] = "$" -> <<"$">>
                 [] repl[i + 1] = "&" -> matched
                 [] repl[i + 1] = GraveAccent -> before
                 [] repl[i + 1] = "'" -> after)
              \o GetSubstitutionFrom(repl, matched, before, after, i + 2)
         ELSE <<repl[i]>> \o GetSubstitutionFrom(repl, matched, before, after, i + 1)

GetSubstitution(repl, matched, before, after) ==
    IF \A i \in 1..Len(repl) : repl[i] # "$" THEN repl
    ELSE Bind(matched, LAMBDA m : Bind(before, LAMBDA b : Bind(after, LAMBDA a :
             GetSubstitutionFrom(repl, m, b, a, 1))))

\* Canonicalize of the i flag (no u flag): each character to uppercase.
Canonicalize(s, ignoreCase) == IF ignoreCase THEN toUpperCase(s) ELSE s

\* The matches of a global RegExp over hay: every position where needle
\* occurs and that no earlier match covers (the search resumes at the end
\* of each match).  An empty needle matches at every position, the end
\* included.
Occurrences(hay, needle) ==
    {p \in 1..(Len(hay) - Len(needle) + 1) : MatchAt(hay, needle, p)}

Matches(hay, needle) ==
    Bind(Occurrences(hay, needle), LAMBDA occ :
        IF \A p, q \in occ : p < q => p + Len(needle) <= q
        THEN occ
        ELSE CHOOSE found \in SUBSET occ :
                 \A p \in occ :
                     p \in found <=> ~\E q \in found : q < p /\ p < q + Len(needle))

\* text.replace(new RegExp(source, ignoreCase ? 'gi' : 'g'), repl): hay
\* and needle are text and pattern as the flags compare them; every
\* match gives way to its substitution, every other character stays.
replace(text, source, repl, ignoreCase) ==
    Bind(Canonicalize(text, ignoreCase), LAMBDA hay :
        Bind(Canonicalize(RegExpLiteral(source), ignoreCase), LAMBDA needle :
            Bind(Matches(hay, needle), LAMBDA found :
                IF found = {} THEN text
                ELSE Concat([p \in 1..(Len(text) + 1) |->
                        (IF p \in found
                         THEN GetSubstitution(repl,
                                              SubSeq(text, p, p + Len(needle) - 1),
                                              SubSeq(text, 1, p - 1),
                                              SubSeq(text, p + Len(needle), Len(text)))
                         ELSE <<>>)
                        \o (IF p <= Len(text)
                               /\ ~\E q \in found : q <= p /\ p < q + Len(needle)
                            THEN <<text[p]>>
                            ELSE <<>>)]))))

(***************************************************************************)
(* JavaScript values used by the engine                                    *)
(***************************************************************************)

\* The value of an optional field that was not given.  It is no string:
\* its one element is not a character.
Undefined == <<"undefined">>

\* The null of a nullable column, no string either.
Null == <<"null">>

\* ToBoolean of a string, undefined or null.
Truthy(v) == v # <<>> /\ v # Undefined /\ v # Null

\* a || b
OrElse(a, b) == IF Truthy(a) THEN a ELSE b

RECURSIVE NumVal(_)
NumVal(ds) ==
    IF ds = <<>> THEN 0
    ELSE 10 * NumVal(SubSeq(ds, 1, Len(ds) - 1))
         + (CHOOSE d \in 0..9 : Digits[d + 1] = ds[Len(ds)])

RECURSIVE ToDigits(_)
ToDigits(n) ==
    IF n < 10 THEN <<Digits[n + 1]>>
    ELSE ToDigits(n \div 10) \o <<Digits[(n % 10) + 1]>>

Pad2(n) == IF n < 10 THEN <<"0">> \o ToDigits(n) ELSE ToDigits(n)

\* A property key that is a canonical array index ("0", "7", "42"): such
\* keys are enumerated first, in ascending numeric order.
IsArrayIndex(k) ==
    /\ Len(k) >= 1
    /\ Len(k) <= 9
    /\ \A i \in 1..Len(k) : k[i] \in DigitSet
    /\ (Len(k) = 1 \/ k[1] # "0")

\* An object used as a map: <<key, value>> pairs in enumeration order
\* (array-index keys ascending, then the other keys in insertion order).
HasKey(obj, k) == \E i \in 1..Len(obj) : obj[i][1] = k

ObjGet(obj, k) ==
    IF HasKey(obj, k)
    THEN obj[CHOOSE i \in 1..Len(obj) : obj[i][1] = k][2]
    ELSE Undefined

\* The key "__proto__" is the accessor inherited from Object.prototype:
\* assigning to it on an object created by {} creates no own property (it
\* sets the prototype for an object value and does nothing for any other
\* value).
ProtoKey == Chars("__proto__")

\* The object a sequence of assignments obj[k] = v builds from {}: one
\* entry per key, array-index keys first in ascending order, then the
\* other keys in the order of their first assignment; the value of a key
\* is the one assigned last.
Assigned(writes) ==
    LET own == {i \in 1..Len(writes) : writes[i][1] # ProtoKey}
        first == {i \in own : \A j \in own : j < i => writes[j][1] # writes[i][1]}
        ahead(j, i) ==
            IF IsArrayIndex(writes[j][1])
            THEN ~IsArrayIndex(writes[i][1]) \/ NumVal(writes[j][1]) < NumVal(writes[i][1])
            ELSE ~IsArrayIndex(writes[i][1]) /\ j < i
        place(i) == Cardinality({j \in first : ahead(j, i)})
        last(i) == CHOOSE j \in own :
                       /\ writes[j][1] = writes[i][1]
                       /\ \A h \in own : h > j => writes[h][1] # writes[i][1]
    IN  AsSeq([p \in 1..Cardinality(first) |->
                  Bind(CHOOSE i \in first : place(i) = p - 1, LAMBDA i :
                      <<writes[i][1], writes[last(i)][2]>>)])

\* obj[k] = v
ObjSet(obj, k, v) == Assigned(Append(obj, <<k, v>>))

\* Object.keys
ObjectKeys(obj) == AsSeq([i \in 1..Len(obj) |-> obj[i][1]])

(***************************************************************************)
(* Dates, as far as createPIIMappings uses them                            *)
(***************************************************************************)

IsDigits(s) == \A i \in 1..Len(s) : s[i] \in DigitSet

IsLeap(y) == (y % 4 = 0 /\ y % 100 # 0) \/ y % 400 = 0

DaysIn(y, m) ==
    IF m = 2 THEN (IF IsLeap(y) THEN 29 ELSE 28)
    ELSE IF m \in {4, 6, 9, 11} THEN 30 ELSE 31

\* new Date(s) for a date-only ISO string YYYY-MM-DD of a real calendar
\* day: midnight UTC of that day.  Any other string of the model's inputs
\* is one the Date constructor does not parse (getTime() is NaN).
IsIsoDate(s) ==
    /\ Len(s) = 10
    /\ s[5] = "-" /\ s[8] = "-"
    /\ IsDigits(SubSeq(s, 1, 4)) /\ IsDigits(SubSeq(s, 6, 7)) /\ IsDigits(SubSeq(s, 9, 10))
    /\ NumVal(SubSeq(s, 6, 7)) \in 1..12
    /\ NumVal(SubSeq(s, 9, 10)) \in 1..DaysIn(NumVal(SubSeq(s, 1, 4)), NumVal(SubSeq(s, 6, 7)))

ParseDate(s) ==
    [y |-> NumVal(SubSeq(s, 1, 4)), m |-> NumVal(SubSeq(s, 6, 7)), d |-> NumVal(SubSeq(s, 9, 10))]

PrevDay(dt) ==
    IF dt.d > 1 THEN [dt EXCEPT !.d = dt.d - 1]
    ELSE IF dt.m > 1 THEN [dt EXCEPT !.m = dt.m - 1, !.d = DaysIn(dt.y, dt.m - 1)]
    ELSE [y |-> dt.y - 1, m |-> 12, d |-> 31]

\* The time zones of the process, by what they do to midnight UTC: at or
\* east of Greenwich the local calendar day is the same, west of it the
\* local day is the day before.
TimeZones == {"utc", "west"}

\* Date.prototype.toLocaleDateString() in the default (en-US) locale.
toLocaleDateString(dt, tz) ==
    LET l == IF tz = "west" THEN PrevDay(dt) ELSE dt
    IN  ToDigits(l.m) \o <<"/">> \o ToDigits(l.d) \o <<"/">> \o ToDigits(l.y)

\* Date.prototype.toISOString().split('T')[0]
toISODate(dt) ==
    ToDigits(dt.y) \o <<"-">> \o Pad2(dt.m) \o <<"-">> \o Pad2(dt.d)

(***************************************************************************)
(* lib/pii-masking.ts                                                      *)
(***************************************************************************)

PLACEHOLDERS ==
    [STUDENT_NAME  |-> Chars("[STUDENT_NAME]"),
     STUDENT_FIRST |-> Chars("[STUDENT_FIRST]"),
     DOB           |-> Chars("[DATE_OF_BIRTH]"),
     STUDENT_ID    |-> Chars("[STUDENT_ID]"),
     SCHOOL        |-> Chars("[SCHOOL_NAME]"),
     GRADE         |-> Chars("[GRADE_LEVEL]"),
     PARENT_NAME   |-> Chars("[PARENT_NAME]"),
     ADDRESS       |-> Chars("[ADDRESS]"),
     HE_SHE        |-> Chars("[HE/SHE]"),
     HIM_HER       |-> Chars("[HIM/HER]"),
     HIS_HER       |-> Chars("[HIS/HER]")]

\* The tokens createPIIMappings can give a key, and the pronoun tokens.
DataTokens ==
    {PLACEHOLDERS.STUDENT_NAME, PLACEHOLDERS.STUDENT_FIRST, PLACEHOLDERS.DOB,
     PLACEHOLDERS.STUDENT_ID, PLACEHOLDERS.SCHOOL, PLACEHOLDERS.GRADE,
     PLACEHOLDERS.PARENT_NAME, PLACEHOLDERS.ADDRESS}
PronounTokens == {PLACEHOLDERS.HE_SHE, PLACEHOLDERS.HIM_HER, PLACEHOLDERS.HIS_HER}

\* The assignments of the name block of createPIIMappings (lines 41-55),
\* in order.
NameMappings(name) ==
    IF ~Truthy(name) THEN <<>>
    ELSE Bind(splitFirst(name), LAMBDA firstName :
             <<(<<name, PLACEHOLDERS.STUDENT_NAME>>)>>
             \o (IF Truthy(firstName) /\ firstName # name
                 THEN <<(<<firstName, PLACEHOLDERS.STUDENT_FIRST>>)>>
                 ELSE <<>>)
             \o <<(<<toLowerCase(name), PLACEHOLDERS.STUDENT_NAME>>),
                  (<<toUpperCase(name), PLACEHOLDERS.STUDENT_NAME>>),
                  (<<toLowerCase(firstName), PLACEHOLDERS.STUDENT_FIRST>>),
                  (<<toUpperCase(firstName), PLACEHOLDERS.STUDENT_FIRST>>)>>)

\* The assignments of the date-of-birth block (lines 57-65).
DobMappings(dateOfBirth, tz) ==
    IF ~Truthy(dateOfBirth) THEN <<>>
    ELSE <<(<<dateOfBirth, PLACEHOLDERS.DOB>>)>>
         \o (IF IsIsoDate(dateOfBirth)
             THEN Bind(ParseDate(dateOfBirth), LAMBDA dobDate :
                      <<(<<toLocaleDateString(dobDate, tz), PLACEHOLDERS.DOB>>),
                        (<<toISODate(dobDate), PLACEHOLDERS.DOB>>)>>)
             ELSE <<>>)

\* A field mapped by its value whatever the value is, empty or not given
\* included.
UnguardedMapping(value, placeholder) == <<(<<value, placeholder>>)>>

\* A field mapped by its exact value only (studentId, grade, address).
ExactMapping(value, placeholder) ==
    IF ~Truthy(value) THEN <<>> ELSE <<(<<value, placeholder>>)>>

\* A field with case forms mapped as if it had none.
WithoutCaseForms(value, placeholder) ==
    IF ~Truthy(value) THEN <<>> ELSE <<(<<value, placeholder>>)>>

\* A field mapped by its exact, lowercase and uppercase forms (school,
\* parentName).
CaseMappings(value, placeholder) ==
    IF ~Truthy(value) THEN <<>>
    ELSE <<(<<value, placeholder>>),
           (<<toLowerCase(value), placeholder>>),
           (<<toUpperCase(value), placeholder>>)>>

\* The table the blocks would build if they ran in the opposite order.
createPIIMappingsBackwards(studentInfo, tz) ==
    Assigned(ExactMapping(studentInfo.address, PLACEHOLDERS.ADDRESS)
             \o CaseMappings(studentInfo.parentName, PLACEHOLDERS.PARENT_NAME)
             \o ExactMapping(studentInfo.grade, PLACEHOLDERS.GRADE)
             \o CaseMappings(studentInfo.school, PLACEHOLDERS.SCHOOL)
             \o ExactMapping(studentInfo.studentId, PLACEHOLDERS.STUDENT_ID)
             \o DobMappings(studentInfo.dateOfBirth, tz)
             \o NameMappings(studentInfo.name))

\* createPIIMappings: the table its assignments build, block after block.
createPIIMappings(studentInfo, tz) ==
    Assigned(NameMappings(studentInfo.name)
             \o DobMappings(studentInfo.dateOfBirth, tz)
             \o ExactMapping(studentInfo.studentId, PLACEHOLDERS.STUDENT_ID)
             \o CaseMappings(studentInfo.school, PLACEHOLDERS.SCHOOL)
             \o ExactMapping(studentInfo.grade, PLACEHOLDERS.GRADE)
             \o CaseMappings(studentInfo.parentName, PLACEHOLDERS.PARENT_NAME)
             \o ExactMapping(studentInfo.address, PLACEHOLDERS.ADDRESS))

\* Array.prototype.sort((a, b) => b.length - a.length): stable, longest
\* first.  A key comes after the longer keys and after the equally long
\* keys that stood before it.
sortByLengthDesc(keys) ==
    LET before(i) ==
            Cardinality({j \in 1..Len(keys) :
                \/ Len(keys[j]) > Len(keys[i])
                \/ (Len(keys[j]) = Len(keys[i]) /\ j < i)})
    IN  AsSeq([p \in 1..Len(keys) |-> keys[CHOOSE i \in 1..Len(keys) : before(i) = p - 1]])

\* The loop of maskPII over the sorted keys (lines 108-113): its
\* iterations lo to hi, the first half and then the second.
RECURSIVE maskLoop(_, _, _, _, _)
maskLoop(maskedText, sortedKeys, mappings, lo, hi) ==
    IF lo > hi THEN maskedText
    ELSE IF lo = hi
         THEN replace(maskedText, escapeRegExp(sortedKeys[lo]),
                      ObjGet(mappings, sortedKeys[lo]), TRUE)
    ELSE Bind(maskLoop(maskedText, sortedKeys, mappings, lo, (lo + hi) \div 2),
              LAMBDA replaced :
                  maskLoop(replaced, sortedKeys, mappings, (lo + hi) \div 2 + 1, hi))

maskPII(text, mappings) ==
    Bind(sortByLengthDesc(ObjectKeys(mappings)), LAMBDA sortedKeys :
        maskLoop(text, sortedKeys, mappings, 1, Len(sortedKeys)))

\* The loop that builds the reverse table of unmaskPII (lines 130-136),
\* iterations lo to hi: a placeholder gets the real value of an entry
\* when it has none yet, or an empty one.
RECURSIVE reverseLoop(_, _, _, _)
reverseLoop(reverseMappings, entries, lo, hi) ==
    IF lo > hi THEN reverseMappings
    ELSE IF lo = hi
         THEN IF ~Truthy(ObjGet(reverseMappings, entries[lo][2]))
              THEN ObjSet(reverseMappings, entries[lo][2], entries[lo][1])
              ELSE reverseMappings
    ELSE Bind(reverseLoop(reverseMappings, entries, lo, (lo + hi) \div 2),
              LAMBDA r : reverseLoop(r, entries, (lo + hi) \div 2 + 1, hi))

ReverseMappings(mappings) == reverseLoop(<<>>, mappings, 1, Len(mappings))

\* The replacement loop of unmaskPII (lines 138-141) over the entries of
\* the reverse table, iterations lo to hi.
RECURSIVE unmaskLoop(_, _, _, _)
unmaskLoop(unmaskedText, entries, lo, hi) ==
    IF lo > hi THEN unmaskedText
    ELSE IF lo = hi
         THEN replace(unmaskedText, escapeRegExp(entries[lo][1]), entries[lo][2], FALSE)
    ELSE Bind(unmaskLoop(unmaskedText, entries, lo, (lo + hi) \div 2),
              LAMBDA replaced : unmaskLoop(replaced, entries, (lo + hi) \div 2 + 1, hi))

unmaskPII(text, mappings) ==
    Bind(ReverseMappings(mappings), LAMBDA entries :
        unmaskLoop(text, entries, 1, Len(entries)))

\* A validation without the length floor: every key whose lowercase form
\* the lowercased text includes.
validateEveryLength(text, mappings) ==
    Bind(toLowerCase(text), LAMBDA textLower :
        Bind(SelectSeq(ObjectKeys(mappings),
                       LAMBDA realValue :
                           Bind(toLowerCase(realValue),
                                LAMBDA v : includes(textLower, v))),
             LAMBDA exposedValues :
                 [isClean |-> Len(exposedValues) = 0, exposedValues |-> exposedValues]))

\* validateNoExposedPII: the keys longer than 2 whose lowercase form the
\* lowercased text includes, in key order.
validateNoExposedPII(text, mappings) ==
    Bind(toLowerCase(text), LAMBDA textLower :
        Bind(SelectSeq(ObjectKeys(mappings),
                       LAMBDA realValue :
                           Len(realValue) > 2
                           /\ Bind(toLowerCase(realValue),
                                   LAMBDA v : includes(textLower, v))),
             LAMBDA exposedValues :
                 [isClean |-> Len(exposedValues) = 0, exposedValues |-> exposedValues]))

\* maskPIIInObject.  A value is a record [t, v]: t the type tag ("string",
\* "number", "boolean", "null", "undefined", "array", "object"), v the
\* characters of a string, the elements of an array, or the
\* <<key, value>> entries of a keyed record in enumeration order.
RECURSIVE maskPIIInObject(_, _)
maskPIIInObject(obj, mappings) ==
    IF obj.t = "string" THEN [t |-> "string", v |-> maskPII(obj.v, mappings)]
    ELSE IF obj.t = "array"
         THEN [t |-> "array",
               v |-> AsSeq([i \in 1..Len(obj.v) |->
                               Bind(obj.v[i], LAMBDA item : maskPIIInObject(item, mappings))])]
    ELSE IF obj.t = "object"
         THEN [t |-> "object",
               v |-> Bind(AsSeq([k \in 1..Len(obj.v) |->
                              <<obj.v[k][1],
                                Bind(obj.v[k][2], LAMBDA value :
                                    maskPIIInObject(value, mappings))>>]),
                          LAMBDA masked : Assigned(masked))]
    ELSE obj

(***************************************************************************)
(* Inputs                                                                  *)
(***************************************************************************)

\* At most this many pieces make up a text.
MaxPieces == 2

\* At most this many containers are nested in a structured value.
MaxDepth == 2

\* Student names: two tokens, one token, one token all lowercase, a first
\* name whose letters occur in placeholder tokens, a leading space, none.
Names ==
    {Chars("John Smith"), Chars("Bob"), Chars("bob"), Chars("Den Lee"),
     Chars(" Al"), <<>>}

\* The other fields of a record: what the form requires, every field, the
\* name alone, and a guardian bearing the student's name.
Profiles(name) ==
    {[dateOfBirth |-> Chars("2015-04-02"), studentId |-> <<>>,
      school |-> Chars("Elm High"), grade |-> Chars("5"),
      parentName |-> Chars("Mary Smith"), parentEmail |-> Undefined,
      address |-> Undefined],
     [dateOfBirth |-> Chars("2015-03-01"), studentId |-> Chars("12345"),
      school |-> Chars("Elm High"), grade |-> Chars("K"),
      parentName |-> Chars("Mary Smith"), parentEmail |-> Chars("mary@elm.org"),
      address |-> Chars("12 Elm St")],
     [dateOfBirth |-> <<>>, studentId |-> <<>>,
      school |-> <<>>, grade |-> <<>>,
      parentName |-> <<>>, parentEmail |-> Undefined,
      address |-> Undefined],
     [dateOfBirth |-> <<>>, studentId |-> <<>>,
      school |-> <<>>, grade |-> <<>>,
      parentName |-> name, parentEmail |-> Undefined,
      address |-> Undefined]}

StudentInfoOf(n, p) ==
    [name |-> n, dateOfBirth |-> p.dateOfBirth, studentId |-> p.studentId,
     school |-> p.school, grade |-> p.grade, parentName |-> p.parentName,
     parentEmail |-> p.parentEmail, address |-> p.address]

StudentInfos == UNION {{StudentInfoOf(n, p) : p \in Profiles(n)} : n \in Names}

\* Dates of birth: two calendar days as the date input stores them, a
\* text that is no date, none.
Dates == {Chars("2015-04-02"), Chars("2015-03-01"), Chars("unknown"), <<>>}

\* The fields after the date, for the records of TableInfos: every field;
\* what the form requires; none; fields that share their text (the number
\* of the student is the grade, the guardian bears the name of the school,
\* the address is that name in lowercase); a guardian bearing the
\* student's name.
FieldSets(name) ==
    {[studentId |-> Chars("12345"), school |-> Chars("Elm High"), grade |-> Chars("K"),
      parentName |-> Chars("Mary Smith"), parentEmail |-> Chars("mary@elm.org"),
      address |-> Chars("12 Elm St")],
     [studentId |-> <<>>, school |-> Chars("Elm High"), grade |-> Chars("5"),
      parentName |-> Chars("Mary Smith"), parentEmail |-> Undefined,
      address |-> Undefined],
     [studentId |-> <<>>, school |-> <<>>, grade |-> <<>>,
      parentName |-> <<>>, parentEmail |-> Undefined, address |-> Undefined],
     [studentId |-> Chars("10"), school |-> Chars("Elm"), grade |-> Chars("10"),
      parentName |-> Chars("Elm"), parentEmail |-> Undefined,
      address |-> Chars("elm")],
     [studentId |-> <<>>, school |-> <<>>, grade |-> <<>>,
      parentName |-> name, parentEmail |-> Undefined, address |-> <<>>]}

\* The records createPIIMappings is examined on: every name with every
\* date and every set of the other fields.
TableInfos ==
    UNION {{[name |-> n, dateOfBirth |-> d, studentId |-> f.studentId,
             school |-> f.school, grade |-> f.grade, parentName |-> f.parentName,
             parentEmail |-> f.parentEmail, address |-> f.address] :
               d \in Dates, f \in FieldSets(n)} : n \in Names}

\* Two records for the calls of the engine one after another: every field
\* given, with a grade of one character; and a first name whose letters
\* occur in the tokens, with a grade of two characters.
SampleInfos ==
    {StudentInfoOf(Chars("John Smith"), CHOOSE p \in Profiles(<<>>) : p.grade = Chars("K")),
     [StudentInfoOf(Chars("Den Lee"), CHOOSE p \in Profiles(<<>>) : p.grade = Chars("5"))
          EXCEPT !.grade = Chars("10")]}

\* Addresses with characters that a replacement string or a regular
\* expression gives a meaning: a dollar before an ampersand, two dollars,
\* and a dollar before a digit among brackets and a full stop.
SpecialAddresses == {Chars("PO Box $&"), Chars("Apt $$5"), Chars("$100 (rear) St.")}

\* The records unmaskPII is examined on for such values: every field
\* given, the address one of SpecialAddresses.
SpecialInfos ==
    {[StudentInfoOf(Chars("John Smith"), CHOOSE p \in Profiles(<<>>) : p.grade = Chars("K"))
          EXCEPT !.address = a] : a \in SpecialAddresses}

\* A rendering with the letters alternately lowercase and uppercase.
mixedCase(s) ==
    AsSeq([i \in 1..Len(s) |-> IF i % 2 = 1 THEN toLowerChar(s[i]) ELSE toUpperChar(s[i])])

\* The name in its four casings.
NameRenderings(info) ==
    {info.name, toLowerCase(info.name), toUpperCase(info.name), mixedCase(info.name)}

PlainWords == {Chars(" is happy")}

\* The pieces of a text about a student: the name in four casings, the
\* first name, the guardian, and words that name nobody.
Pieces(info) ==
    (NameRenderings(info) \cup {splitFirst(info.name), info.parentName} \cup PlainWords)
    \ {<<>>, Undefined}

\* The pieces of a text checked as it came: values of the record, in the
\* stored and in the lowercase rendering, and words that name nobody.
RawPieces(info) ==
    ({info.name, toLowerCase(info.name), info.grade, toLowerCase(info.school)}
     \cup PlainWords) \ {<<>>, Undefined}

\* A token written in another casing, and a token with a token inside.
LowercaseToken == toLowerCase(PLACEHOLDERS.STUDENT_NAME)
NestedToken == Chars("[STUDENT_") \o PLACEHOLDERS.STUDENT_FIRST \o Chars("NAME]")
NestedParentToken == Chars("[PARENT_") \o PLACEHOLDERS.STUDENT_FIRST \o Chars("NAME]")

\* The pieces of a generated text: tokens and words.
WholePieces ==
    {PLACEHOLDERS.STUDENT_NAME, PLACEHOLDERS.STUDENT_FIRST, PLACEHOLDERS.ADDRESS,
     PLACEHOLDERS.HE_SHE, LowercaseToken} \cup PlainWords

GeneratedPieces == WholePieces \cup {NestedToken, NestedParentToken}

\* The sequences of at most n pieces.
PieceSeqs(ps, n) == UNION {[1..k -> ps] : k \in 0..n}

\* Structured values.
StringValue(s) == [t |-> "string", v |-> s]
NumberValue(n) == [t |-> "number", v |-> n]
ArrayValue(items) == [t |-> "array", v |-> items]
ObjectValue(entries) == [t |-> "object", v |-> entries]

Leaves(info) ==
    {StringValue(info.name), StringValue(Chars("ok")), NumberValue(3),
     [t |-> "boolean", v |-> 1], [t |-> "null", v |-> 0], [t |-> "undefined", v |-> 0]}

\* The values nested at most d containers deep: a leaf, an array of one
\* or two elements, a keyed record of one or two keys, an empty array or
\* record; the second element is the number 3.  One record has the own
\* key "__proto__", as JSON.parse creates it.
RECURSIVE Values(_, _)
Values(info, d) ==
    IF d = 0 THEN Leaves(info)
    ELSE LET inner == Values(info, d - 1)
         IN  Leaves(info)
             \cup {ArrayValue(<<>>), ObjectValue(<<>>)}
             \cup {ArrayValue(<<x>>) : x \in inner}
             \cup {ArrayValue(<<x, NumberValue(3)>>) : x \in inner}
             \cup {ObjectValue(<<(<<Chars("note"), x>>)>>) : x \in inner}
             \cup {ObjectValue(<<(<<Chars("note"), x>>), (<<Chars("count"), NumberValue(3)>>)>>) :
                      x \in inner}
             \cup {ObjectValue(<<(<<ProtoKey, x>>), (<<Chars("count"), NumberValue(3)>>)>>) :
                      x \in inner}

(***************************************************************************)
(* The chat route                                                          *)
(***************************************************************************)

\* The longest conversation of a request.
MaxMessages == 2

\* The teacher who is signed in, and another one.
Teacher == Chars("teacher-1")
OtherTeacher == Chars("teacher-2")

\* The row of the table iep_cases that holds a record: a column that is
\* nullable holds null where the record has nothing.
CaseRow(id, teacher, info) ==
    [id |-> id, teacher_id |-> teacher,
     student_name |-> info.name, student_dob |-> info.dateOfBirth,
     student_id |-> OrElse(info.studentId, Null),
     school_name |-> info.school, grade_level |-> info.grade,
     parent_name |-> info.parentName,
     parent_email |-> OrElse(info.parentEmail, Null),
     student_address |-> OrElse(info.address, Null)]

\* The table: the case of the signed-in teacher, with the record, and a
\* case of the other teacher.
CaseIds == {"case-1", "case-2"}

iep_cases(info) ==
    [id \in CaseIds |->
        IF id = "case-1" THEN CaseRow(id, Teacher, info)
        ELSE CaseRow(id, OtherTeacher,
                     StudentInfoOf(Chars("Ann Lee"),
                                   CHOOSE p \in Profiles(<<>>) : p.studentId # <<>>))]

\* The argument of createPIIMappings in the route (lines 43-52).
studentInfoOfCase(iepCase) ==
    [name |-> iepCase.student_name,
     dateOfBirth |-> iepCase.student_dob,
     studentId |-> OrElse(iepCase.student_id, <<>>),
     school |-> iepCase.school_name,
     grade |-> iepCase.grade_level,
     parentName |-> iepCase.parent_name,
     parentEmail |-> OrElse(iepCase.parent_email, Undefined),
     address |-> OrElse(iepCase.student_address, Undefined)]

\* The messages with the content of the last one masked and the history
\* passed on as it came.
maskLastMessage(messages, piiMappings) ==
    AsSeq([i \in 1..Len(messages) |->
              IF i = Len(messages)
              THEN [messages[i] EXCEPT !.content = maskPII(messages[i].content, piiMappings)]
              ELSE messages[i]])

\* messages.map((msg) => ({ ...msg, content: maskPII(msg.content,
\* piiMappings) })) (lines 55-58)
maskMessages(messages, piiMappings) ==
    AsSeq([i \in 1..Len(messages) |->
              [messages[i] EXCEPT !.content = maskPII(messages[i].content, piiMappings)]])

\* The requests: a case id and a conversation of at most MaxMessages
\* messages, each of either role, naming the student or not.
MessageContents(info) == {info.name \o Chars(" is happy"), Chars("Hello")}

Messages(info) == [role : {"user", "model"}, content : MessageContents(info)]

Bodies(info) ==
    [caseId : CaseIds,
     messages : UNION {[1..n -> Messages(info)] : n \in 0..MaxMessages}]

(***************************************************************************)
(* The wizard (components/wizard)                                          *)
(***************************************************************************)

\* String.prototype.trim, for the white space of the model's inputs (the
\* space character).
trim(s) ==
    IF \A i \in 1..Len(s) : s[i] = " " THEN <<>>
    ELSE SubSeq(s, CHOOSE i \in 1..Len(s) : s[i] # " " /\ \A j \in 1..(i - 1) : s[j] = " ",
                   CHOOSE i \in 1..Len(s) : s[i] # " " /\ \A j \in (i + 1)..Len(s) : s[j] = " ")

\* validate() of the student-info form: does it find no error?
validate(info) ==
    /\ Truthy(trim(info.name))
    /\ Truthy(info.dateOfBirth)
    /\ Truthy(trim(info.school))
    /\ Truthy(trim(info.grade))
    /\ Truthy(trim(info.parentName))

\* The ids of STEPS, in the order of the array.
STEPS ==
    <<"student-info", "upload-documents", "document-analysis", "plep", "goals", "stos",
      "services", "pwn", "review">>

StepIds == {STEPS[i] : i \in 1..Len(STEPS)}

\* Array.prototype.includes
stepIncluded(steps, step) == \E i \in 1..Len(steps) : steps[i] = step

\* STEPS.findIndex((s) => s.id === state.currentStep), counted from 1.
currentStepIndex(rendered) == CHOOSE i \in 1..Len(STEPS) : STEPS[i] = rendered.currentStep

\* useState<WizardState>({ currentStep: 'student-info', completedSteps: [],
\* case: initialCase || {} })
WizardInitial(initialCase) ==
    [currentStep |-> "student-info", completedSteps |-> <<>>,
     case |-> IF Truthy(initialCase) THEN initialCase ELSE <<>>]

\* A handler of the container is called in an event with the state of the
\* last render and queues updaters with setState; what it returns here is
\* the sequence of the updaters it queues.  An updater is applied later,
\* to the state the updaters before it have left (prev).

\* goToStep: setState(prev => ({ ...prev, currentStep: step }))
goToStep(rendered, step) == <<[fn |-> "goToStep", currentStep |-> step]>>

\* A nextStep that pushes the step it leaves in every case.
nextStepPushing(rendered) ==
    IF currentStepIndex(rendered) < Len(STEPS)
    THEN <<[fn |-> "nextStep",
            currentStep |-> STEPS[currentStepIndex(rendered) + 1],
            completedSteps |-> Append(rendered.completedSteps, rendered.currentStep)]>>
    ELSE <<>>

\* A nextStep that hands setState a value made from the rendered state
\* ({ ...state, ... }) instead of an updater of prev.
nextStepFromRendered(rendered) ==
    IF currentStepIndex(rendered) < Len(STEPS)
    THEN <<[fn |-> "value",
            value |-> [rendered EXCEPT
                          !.currentStep = STEPS[currentStepIndex(rendered) + 1],
                          !.completedSteps =
                              IF stepIncluded(rendered.completedSteps, rendered.currentStep)
                              THEN rendered.completedSteps
                              ELSE Append(rendered.completedSteps, rendered.currentStep)]]>>
    ELSE <<>>

\* nextStep: the next step and the new list of completed steps are worked
\* out from the rendered state, everything else is taken from prev.
nextStep(rendered) ==
    IF currentStepIndex(rendered) < Len(STEPS)
    THEN <<[fn |-> "nextStep",
            currentStep |-> STEPS[currentStepIndex(rendered) + 1],
            completedSteps |->
                IF stepIncluded(rendered.completedSteps, rendered.currentStep)
                THEN rendered.completedSteps
                ELSE Append(rendered.completedSteps, rendered.currentStep)]>>
    ELSE <<>>

\* prevStep
prevStep(rendered) ==
    IF currentStepIndex(rendered) > 1
    THEN <<[fn |-> "prevStep", currentStep |-> STEPS[currentStepIndex(rendered) - 1]]>>
    ELSE <<>>

\* updateCase: setState(prev => ({ ...prev, case: { ...prev.case,
\* ...updates } }))
updateCase(rendered, updates) == <<[fn |-> "updateCase", updates |-> updates]>>

\* One queued update applied to prev: an updater function, or a value
\* that replaces the state.
applyUpdater(prev, updater) ==
    CASE updater.fn = "goToStep" -> [prev EXCEPT !.currentStep = updater.currentStep]
      [] updater.fn = "nextStep" ->
            [prev EXCEPT !.currentStep = updater.currentStep,
                         !.completedSteps = updater.completedSteps]
      [] updater.fn = "prevStep" -> [prev EXCEPT !.currentStep = updater.currentStep]
      [] updater.fn = "updateCase" ->
            [prev EXCEPT !.case = Assigned(prev.case \o updater.updates)]
      [] updater.fn = "value" -> updater.value

\* The state after the updates an event queued, applied in their order.
RECURSIVE applyQueue(_, _)
applyQueue(prev, queue) ==
    IF queue = <<>> THEN prev
    ELSE applyQueue(applyUpdater(prev, queue[1]), SubSeq(queue, 2, Len(queue)))

\* A progress bar that lets every step be clicked.
isClickableAlways(rendered, step) == TRUE

\* WizardProgress: isClickable = isCompleted || isCurrent
isClickable(rendered, step) ==
    stepIncluded(rendered.completedSteps, step) \/ rendered.currentStep = step

\* onUpdate={(studentInfo) => updateCase({ studentInfo })}
onUpdate(rendered, info) == updateCase(rendered, <<<<Chars("studentInfo"), info>>>>)

\* handleSubmit: if (validate()) { onUpdate(info); onNext(); }
handleSubmit(rendered, info) ==
    IF validate(info) THEN onUpdate(rendered, info) \o nextStep(rendered) ELSE <<>>

\* What the form is submitted with: two records it accepts (one with a
\* name that begins with a space), and records it refuses: no name, a name
\* of spaces, no date of birth, no field at all.
FormInfos ==
    {StudentInfoOf(Chars("John Smith"), CHOOSE p \in Profiles(<<>>) : p.grade = Chars("K")),
     StudentInfoOf(Chars(" Al"), CHOOSE p \in Profiles(<<>>) : p.grade = Chars("5")),
     StudentInfoOf(<<>>, CHOOSE p \in Profiles(<<>>) : p.grade = Chars("5")),
     StudentInfoOf(Chars("  "), CHOOSE p \in Profiles(<<>>) : p.grade = Chars("5")),
     [StudentInfoOf(Chars("Bob"), CHOOSE p \in Profiles(<<>>) : p.grade = Chars("5"))
          EXCEPT !.dateOfBirth = <<>>],
     StudentInfoOf(<<>>, CHOOSE p \in Profiles(<<>>) : p.grade = <<>> /\ p.parentName = <<>>)}

\* The initialCase of the container: none, a case that has an id only, a
\* case that holds a student already.
InitialCases ==
    {Undefined,
     <<<<Chars("id"), Chars("case-1")>>>>,
     <<<<Chars("id"), Chars("case-1")>>,
       <<Chars("studentInfo"),
         StudentInfoOf(Chars("Bob"), CHOOSE p \in Profiles(<<>>) : p.grade = Chars("5"))>>>>}

(***************************************************************************)
(* The upload step (UploadDocumentsStep)                                   *)
(***************************************************************************)

UploadTypes == {"previousIEP", "testingData"}

\* useState<UploadState>({ file: null, uploading: false, uploaded: !!path,
\* error: null, extractedText: null })
UploadInitial(path) ==
    [file |-> Null, uploading |-> FALSE, uploaded |-> Truthy(path), error |-> Null,
     extractedText |-> Null]

\* handleFileSelect: what the setter of the slot is called with, as the
\* state it makes of prev.
handleFileSelect(prev, file) ==
    IF file = Null
    THEN [file |-> Null, uploading |-> FALSE, uploaded |-> FALSE, error |-> Null,
          extractedText |-> Null]
    ELSE [prev EXCEPT !.file = file, !.error = Null]

\* uploadFile, line 79: if (!state.file || !caseId) return;
uploadGuard(rendered, caseId) == Truthy(rendered.file) /\ Truthy(caseId)

\* uploadFile, line 81
uploadStarted(prev) == [prev EXCEPT !.uploading = TRUE, !.error = Null]

\* uploadFile, lines 103-108
uploadSucceeded(prev, result) ==
    [prev EXCEPT !.uploading = FALSE, !.uploaded = TRUE,
                 !.extractedText = result.extractedText]

\* uploadFile, lines 111-121: what onUpdate is called with.
uploadedData(type, result) ==
    IF type = "previousIEP"
    THEN <<<<Chars("previousIEPPath"), result.fileName>>,
           <<Chars("previousIEPText"), result.extractedText>>>>
    ELSE <<<<Chars("testingDataPath"), result.fileName>>,
           <<Chars("testingDataText"), result.extractedText>>>>

\* What is thrown in the try block when the response does not allow the
\* upload: the rejection of fetch, or new Error(result.error || 'Upload
\* failed') for a response that is not ok.
thrownError(outcome) ==
    IF outcome.rejected THEN outcome.thrown
    ELSE [isError |-> TRUE, message |-> OrElse(outcome.result.error, Chars("Upload failed"))]

\* error instanceof Error ? error.message : 'Upload failed'
errorMessage(error) == IF error.isError THEN error.message ELSE Chars("Upload failed")

\* A catch block that takes the slot back to not uploaded.
uploadFailedResetting(prev, message) ==
    [prev EXCEPT !.uploading = FALSE, !.uploaded = FALSE, !.error = message]

\* uploadFile, lines 123-127
uploadFailed(prev, message) == [prev EXCEPT !.uploading = FALSE, !.error = message]

\* Does the request end in the catch block?
uploadThrows(outcome) == outcome.rejected \/ ~outcome.ok

\* At most this many requests are under way at a time.
MaxPending == 2

\* The files a slot is given.
Files == {Chars("iep.pdf")}

\* What fetch and response.json() come back with (api/upload): the text
\* of the file, a refusal that names its reason, a refusal that names
\* none, and a request that did not get through.
Outcomes ==
    {[rejected |-> FALSE, ok |-> TRUE, thrown |-> [isError |-> TRUE, message |-> <<>>],
      result |-> [fileName |-> Chars("case-1/upload.pdf"),
                  extractedText |-> Chars("Reads at grade 3"), error |-> Undefined]],
     [rejected |-> FALSE, ok |-> FALSE, thrown |-> [isError |-> TRUE, message |-> <<>>],
      result |-> [fileName |-> Undefined, extractedText |-> Undefined,
                  error |-> Chars("Case not found")]],
     [rejected |-> FALSE, ok |-> FALSE, thrown |-> [isError |-> TRUE, message |-> <<>>],
      result |-> [fileName |-> Undefined, extractedText |-> Undefined,
                  error |-> Undefined]],
     [rejected |-> TRUE, ok |-> FALSE,
      thrown |-> [isError |-> TRUE, message |-> Chars("Failed to fetch")],
      result |-> [fileName |-> Undefined, extractedText |-> Undefined,
                  error |-> Undefined]]}

(***************************************************************************)
(* State                                                                   *)
(***************************************************************************)

VARIABLES
    studentInfo,    \* the record of the case
    mappings,       \* the table createPIIMappings returned
    pieces,         \* the pieces the text was put together from
    text,           \* the text handed to maskPII
    maskedText,     \* what maskPII returned, or what the AI generated
    validation,     \* what validateNoExposedPII returned for maskedText
    unmaskedText,   \* what unmaskPII returned for maskedText
    unmaskedTwice,  \* what unmaskPII returned for unmaskedText
    obj,            \* the structured value handed to maskPIIInObject
    maskedObj,      \* what maskPIIInObject returned
    user,           \* route: the user of the session, or null
    body,           \* route: the request body
    iepCase,        \* route: the row the case lookup returned
    piiMappings,    \* route: the table built from the row
    maskedMessages, \* route: the messages after masking
    chatCalls,      \* the messages chat() was called with, call after call
    audit_log,      \* the rows inserted into audit_log
    response,       \* route: the response that was returned
    pc,             \* how far the flow has come
    state,          \* wizard: the WizardState of the container
    caseId,         \* upload step: the caseId it was given, or undefined
    previousIEP,    \* upload step: the slot of the previous IEP
    testingData,    \* upload step: the slot of the testing data
    pending,        \* upload step: the requests under way, by type
    event           \* the last handler that ran, and what it called

engineVars == <<mappings, pieces, text, maskedText, unmaskedText, unmaskedTwice, obj,
                maskedObj>>

routeVars == <<user, body, iepCase, piiMappings, maskedMessages, chatCalls, audit_log,
               response>>

serverVars == <<studentInfo, engineVars, validation, routeVars, pc>>

uploadVars == <<caseId, previousIEP, testingData, pending>>

uiVars == <<state, uploadVars, event>>

vars == <<studentInfo, engineVars, validation, routeVars, pc, uiVars>>

NoValidation == [isClean |-> TRUE, exposedValues |-> <<>>]
NoValue == [t |-> "undefined", v |-> 0]
NoBody == [caseId |-> "", messages |-> <<>>]
NoResponse == [status |-> 0]
NoEvent == [handler |-> "none"]
NonePending == [type \in UploadTypes |-> 0]

\* The engine and the route have not been called yet.
Unstarted ==
    /\ mappings = <<>>
    /\ pieces = <<>>
    /\ text = <<>>
    /\ maskedText = <<>>
    /\ validation = NoValidation
    /\ unmaskedText = <<>>
    /\ unmaskedTwice = <<>>
    /\ obj = NoValue
    /\ maskedObj = NoValue
    /\ user = Null
    /\ body = NoBody
    /\ iepCase = Null
    /\ piiMappings = <<>>
    /\ maskedMessages = <<>>
    /\ chatCalls = <<>>
    /\ audit_log = <<>>
    /\ response = NoResponse
    /\ pc = "start"

\* The wizard and the upload step as they are mounted without properties.
Mounted ==
    /\ state = WizardInitial(Undefined)
    /\ caseId = Undefined
    /\ previousIEP = UploadInitial(Undefined)
    /\ testingData = UploadInitial(Undefined)
    /\ pending = NonePending
    /\ event = NoEvent

\* Nothing has been called yet.
Fresh == Unstarted /\ Mounted

Init ==
    /\ studentInfo \in StudentInfos
    /\ Fresh

\* 1. The record of the case becomes a table.
CreatePIIMappings ==
    /\ pc = "start"
    /\ \E tz \in TimeZones : mappings' = createPIIMappings(studentInfo, tz)
    /\ pc' = "mapped"
    /\ UNCHANGED <<uiVars, routeVars, studentInfo, pieces, text, maskedText, validation, unmaskedText,
                   unmaskedTwice, obj, maskedObj>>

\* A masking that sorts the entries of the table itself, longest key
\* first, instead of a copy of its keys.
MaskPIISortingTable ==
    /\ pc = "mapped"
    /\ \E ps \in PieceSeqs(Pieces(studentInfo), MaxPieces) :
          /\ pieces' = ps
          /\ text' = Concat(ps)
          /\ maskedText' = maskPII(Concat(ps), mappings)
    /\ mappings' = Bind(sortByLengthDesc(ObjectKeys(mappings)), LAMBDA sortedKeys :
                        AsSeq([p \in 1..Len(sortedKeys) |->
                                  <<sortedKeys[p], ObjGet(mappings, sortedKeys[p])>>]))
    /\ pc' = "masked"
    /\ UNCHANGED <<uiVars, routeVars, studentInfo, validation, unmaskedText, unmaskedTwice,
                   obj, maskedObj>>

\* 2. Before the AI call a text is masked.
MaskPII ==
    /\ pc = "mapped"
    /\ \E ps \in PieceSeqs(Pieces(studentInfo), MaxPieces) :
          /\ pieces' = ps
          /\ text' = Concat(ps)
          /\ maskedText' = maskPII(Concat(ps), mappings)
    /\ pc' = "masked"
    /\ UNCHANGED <<uiVars, routeVars, studentInfo, mappings, validation, unmaskedText, unmaskedTwice,
                   obj, maskedObj>>

\* The safety check on the masked text.
ValidateNoExposedPII ==
    /\ pc = "masked"
    /\ validation' = validateNoExposedPII(maskedText, mappings)
    /\ pc' = "validated"
    /\ UNCHANGED <<uiVars, routeVars, studentInfo, mappings, pieces, text, maskedText, unmaskedText,
                   unmaskedTwice, obj, maskedObj>>

\* The safety check on a text as it came, before any masking.
ValidateText ==
    /\ pc = "mapped"
    /\ \E ps \in PieceSeqs(RawPieces(studentInfo), MaxPieces) :
          /\ pieces' = ps
          /\ text' = Concat(ps)
          /\ validation' = validateNoExposedPII(Concat(ps), mappings)
    /\ pc' = "checked"
    /\ UNCHANGED <<uiVars, routeVars, studentInfo, mappings, maskedText, unmaskedText, unmaskedTwice,
                   obj, maskedObj>>

\* 3. The AI generates content with placeholders.
Generate ==
    /\ pc = "mapped"
    /\ \E ps \in PieceSeqs(GeneratedPieces, MaxPieces) :
          /\ pieces' = ps
          /\ maskedText' = Concat(ps)
    /\ pc' = "generated"
    /\ UNCHANGED <<uiVars, routeVars, studentInfo, mappings, text, validation, unmaskedText, unmaskedTwice,
                   obj, maskedObj>>

\* 4. For display the real values are restored.
UnmaskPII ==
    /\ pc \in {"validated", "generated"}
    /\ unmaskedText' = unmaskPII(maskedText, mappings)
    /\ pc' = IF pc = "validated" THEN "unmasked" ELSE "restored"
    /\ UNCHANGED <<uiVars, routeVars, studentInfo, mappings, pieces, text, maskedText, validation,
                   unmaskedTwice, obj, maskedObj>>

\* The restored text is unmasked once more.
UnmaskAgain ==
    /\ pc = "restored"
    /\ unmaskedTwice' = unmaskPII(unmaskedText, mappings)
    /\ pc' = "restoredTwice"
    /\ UNCHANGED <<uiVars, routeVars, studentInfo, mappings, pieces, text, maskedText, validation,
                   unmaskedText, obj, maskedObj>>

\* Structured data is masked.
MaskPIIInObject ==
    /\ pc = "mapped"
    /\ \E o \in Values(studentInfo, MaxDepth) :
          /\ obj' = o
          /\ maskedObj' = maskPIIInObject(o, mappings)
    /\ pc' = "objectMasked"
    /\ UNCHANGED <<uiVars, routeVars, studentInfo, mappings, pieces, text, maskedText, validation,
                   unmaskedText, unmaskedTwice>>

Next ==
    \/ CreatePIIMappings
    \/ MaskPII
    \/ ValidateNoExposedPII
    \/ ValidateText
    \/ Generate
    \/ UnmaskPII
    \/ UnmaskAgain
    \/ MaskPIIInObject

Spec == Init /\ [][Next]_vars

\* createPIIMappings on its own, over the records of TableInfos.
InitTable ==
    /\ studentInfo \in TableInfos
    /\ Fresh

NextTable == CreatePIIMappings

SpecTable == InitTable /\ [][NextTable]_vars

\* The calls of the engine one after another, over the records of
\* SampleInfos.
InitSample ==
    /\ studentInfo \in SampleInfos
    /\ Fresh

SpecSample == InitSample /\ [][Next]_vars

\* The calls of the engine over the records of SpecialInfos.
InitSpecial ==
    /\ studentInfo \in SpecialInfos
    /\ Fresh

SpecSpecial == InitSpecial /\ [][Next]_vars

(***************************************************************************)
(* POST /api/chat                                                          *)
(***************************************************************************)

\* The response of the catch block (lines 103-109).
Failed == [status |-> 500]

\* supabase.auth.getUser() and the check of lines 21-23.
GetUser ==
    /\ pc = "start"
    /\ \E u \in {Null, Teacher} :
          /\ user' = u
          /\ IF u = Null
             THEN response' = [status |-> 401] /\ pc' = "responded"
             ELSE response' = response /\ pc' = "authenticated"
    /\ UNCHANGED <<uiVars, studentInfo, engineVars, validation, body, iepCase, piiMappings,
                   maskedMessages, chatCalls, audit_log>>

\* A case lookup by id alone, whoever the teacher of the case is.
CaseLookupById ==
    /\ pc = "authenticated"
    /\ \E b \in Bodies(studentInfo) :
          /\ body' = b
          /\ response' = response
          /\ pc' = "found"
          /\ iepCase' = iep_cases(studentInfo)[b.caseId]
    /\ UNCHANGED <<uiVars, studentInfo, engineVars, validation, user, piiMappings, maskedMessages,
                   chatCalls, audit_log>>

\* The body is read and the case looked up by id and teacher_id (lines
\* 25-38).
CaseLookup ==
    /\ pc = "authenticated"
    /\ \E b \in Bodies(studentInfo) :
          /\ body' = b
          /\ LET data == {row \in {iep_cases(studentInfo)[id] : id \in CaseIds} :
                             row.id = b.caseId /\ row.teacher_id = user}
             IN  IF data = {}
                 THEN /\ response' = [status |-> 404]
                      /\ pc' = "responded"
                      /\ iepCase' = iepCase
                 ELSE /\ response' = response
                      /\ pc' = "found"
                      /\ iepCase' = CHOOSE row \in data : TRUE
    /\ UNCHANGED <<uiVars, studentInfo, engineVars, validation, user, piiMappings, maskedMessages,
                   chatCalls, audit_log>>

\* A route that answers 400 when the validation finds a leak, and calls
\* chat() only with a clean last message.
MaskAndCallChatIfClean ==
    /\ pc = "found"
    /\ \E tz \in TimeZones : piiMappings' = createPIIMappings(studentInfoOfCase(iepCase), tz)
    /\ maskedMessages' = maskMessages(body.messages, piiMappings')
    /\ IF Len(body.messages) = 0
       THEN /\ response' = Failed
            /\ pc' = "responded"
            /\ UNCHANGED <<validation, chatCalls>>
       ELSE /\ validation' = validateNoExposedPII(
                                 maskedMessages'[Len(maskedMessages')].content, piiMappings')
            /\ IF validation'.isClean
               THEN /\ chatCalls' = Append(chatCalls, maskedMessages')
                    /\ response' = response
                    /\ pc' = "chatting"
               ELSE /\ chatCalls' = chatCalls
                    /\ response' = [status |-> 400]
                    /\ pc' = "responded"
    /\ UNCHANGED <<uiVars, studentInfo, engineVars, user, body, iepCase, audit_log>>

\* From the row to the call of chat() (lines 40-84): the table is built,
\* every message masked, the last one validated, and chat() called with
\* the masked messages.  With no message at all the last one is
\* undefined and reading its content throws.
MaskAndCallChat ==
    /\ pc = "found"
    /\ \E tz \in TimeZones : piiMappings' = createPIIMappings(studentInfoOfCase(iepCase), tz)
    /\ maskedMessages' = maskMessages(body.messages, piiMappings')
    /\ IF Len(body.messages) = 0
       THEN /\ response' = Failed
            /\ pc' = "responded"
            /\ UNCHANGED <<validation, chatCalls>>
       ELSE /\ validation' = validateNoExposedPII(
                                 maskedMessages'[Len(maskedMessages')].content, piiMappings')
            /\ chatCalls' = Append(chatCalls, maskedMessages')
            /\ response' = response
            /\ pc' = "chatting"
    /\ UNCHANGED <<uiVars, studentInfo, engineVars, user, body, iepCase, audit_log>>

\* chat() returns.
ChatReturns ==
    /\ pc = "chatting"
    /\ pc' = "chatted"
    /\ UNCHANGED <<uiVars, studentInfo, engineVars, validation, routeVars>>

\* chat() throws: the catch block answers.
ChatThrows ==
    /\ pc = "chatting"
    /\ response' = Failed
    /\ pc' = "responded"
    /\ UNCHANGED <<uiVars, studentInfo, engineVars, validation, user, body, iepCase, piiMappings,
                   maskedMessages, chatCalls, audit_log>>

\* The audit row is inserted and the response returned (lines 88-102).
InsertAuditLog ==
    /\ pc = "chatted"
    /\ audit_log' = Append(audit_log,
                           [teacher_id |-> user, case_id |-> body.caseId,
                            action |-> "ai_chat", messageCount |-> Len(body.messages)])
    /\ response' = [status |-> 200]
    /\ pc' = "responded"
    /\ UNCHANGED <<uiVars, studentInfo, engineVars, validation, user, body, iepCase, piiMappings,
                   maskedMessages, chatCalls>>

NextChat ==
    \/ GetUser
    \/ CaseLookup
    \/ MaskAndCallChat
    \/ ChatReturns
    \/ ChatThrows
    \/ InsertAuditLog

SpecChat == Init /\ [][NextChat]_vars

(***************************************************************************)
(* The wizard container and the student-info form                          *)
(***************************************************************************)

\* An event of the wizard: the handler runs with the rendered state, the
\* updates it queued are applied in their order, the container renders
\* again before the next event.
WizardEvent(handler, queue) ==
    /\ state' = applyQueue(state, queue)
    /\ event' = [handler |-> handler, queued |-> queue]
    /\ UNCHANGED <<serverVars, uploadVars>>

\* onNext of a step
NextStep == WizardEvent("nextStep", nextStep(state))

\* onPrev of a step
PrevStep == WizardEvent("prevStep", prevStep(state))

\* A click on a step of the progress bar that can be clicked.
StepClick ==
    \E step \in StepIds :
        /\ isClickable(state, step)
        /\ WizardEvent("goToStep", goToStep(state, step))

\* updateCase, called by a step on its own.
UpdateCase ==
    \E info \in FormInfos : WizardEvent("updateCase", onUpdate(state, info))

\* The student-info form is submitted.
HandleSubmit ==
    /\ state.currentStep = "student-info"
    /\ \E info \in FormInfos :
          /\ state' = applyQueue(state, handleSubmit(state, info))
          /\ event' = [handler |-> "handleSubmit", queued |-> handleSubmit(state, info),
                       info |-> info]
          /\ UNCHANGED <<serverVars, uploadVars>>

\* The record of the engine plays no part in the wizard.
NoStudent == StudentInfoOf(<<>>, CHOOSE p \in Profiles(<<>>) : p.grade = <<>>)

InitWizard ==
    /\ studentInfo = NoStudent
    /\ Unstarted
    /\ \E initialCase \in InitialCases : state = WizardInitial(initialCase)
    /\ caseId = Undefined
    /\ previousIEP = UploadInitial(Undefined)
    /\ testingData = UploadInitial(Undefined)
    /\ pending = NonePending
    /\ event = NoEvent

NextWizard ==
    \/ NextStep
    \/ PrevStep
    \/ StepClick
    \/ UpdateCase
    \/ HandleSubmit

SpecWizard == InitWizard /\ [][NextWizard]_vars

(***************************************************************************)
(* The upload step                                                         *)
(***************************************************************************)

\* The slot of a type, and the call of its setter.
slotOf(type) == IF type = "previousIEP" THEN previousIEP ELSE testingData

SetSlot(type, slot) ==
    IF type = "previousIEP"
    THEN previousIEP' = slot /\ UNCHANGED testingData
    ELSE testingData' = slot /\ UNCHANGED previousIEP

\* A file is chosen or dropped, or the slot is cleared (Remove, Replace).
HandleFileSelect ==
    \E type \in UploadTypes, file \in Files \cup {Null} :
        /\ SetSlot(type, handleFileSelect(slotOf(type), file))
        /\ event' = [handler |-> "handleFileSelect", type |-> type, file |-> file]
        /\ UNCHANGED <<serverVars, state, caseId, pending>>

\* uploadFile is called for a slot, with the slot as it was rendered: up
\* to the await of fetch.
UploadFile ==
    \E type \in UploadTypes :
        /\ IF uploadGuard(slotOf(type), caseId)
           THEN /\ pending["previousIEP"] + pending["testingData"] < MaxPending
                /\ SetSlot(type, uploadStarted(slotOf(type)))
                /\ pending' = [pending EXCEPT ![type] = @ + 1]
           ELSE UNCHANGED <<previousIEP, testingData, pending>>
        /\ event' = [handler |-> "uploadFile", type |-> type, step |-> "call",
                     onUpdate |-> <<>>]
        /\ UNCHANGED <<serverVars, state, caseId>>

\* uploadFile goes on after the await: the response is there, or fetch
\* was rejected.
UploadFileResumes ==
    \E type \in UploadTypes, outcome \in Outcomes :
        /\ pending[type] > 0
        /\ pending' = [pending EXCEPT ![type] = @ - 1]
        /\ IF uploadThrows(outcome)
           THEN /\ SetSlot(type, uploadFailed(slotOf(type), errorMessage(thrownError(outcome))))
                /\ event' = [handler |-> "uploadFile", type |-> type, step |-> "resume",
                             outcome |-> outcome, onUpdate |-> <<>>]
           ELSE /\ SetSlot(type, uploadSucceeded(slotOf(type), outcome.result))
                /\ event' = [handler |-> "uploadFile", type |-> type, step |-> "resume",
                             outcome |-> outcome,
                             onUpdate |-> <<uploadedData(type, outcome.result)>>]
        /\ UNCHANGED <<serverVars, state, caseId>>

\* The step is mounted with or without a case id, each slot with or
\* without a path it was given.
InitUpload ==
    /\ studentInfo = NoStudent
    /\ Unstarted
    /\ state = WizardInitial(Undefined)
    /\ caseId \in {Undefined, Chars("case-1")}
    /\ \E previousIEPPath \in {Undefined, Chars("case-1/previous_iep.pdf")} :
          previousIEP = UploadInitial(previousIEPPath)
    /\ \E testingDataPath \in {Undefined, Chars("case-1/testing_data.pdf")} :
          testingData = UploadInitial(testingDataPath)
    /\ pending = NonePending
    /\ event = NoEvent

NextUpload ==
    \/ HandleFileSelect
    \/ UploadFile
    \/ UploadFileResumes

SpecUpload == InitUpload /\ [][NextUpload]_vars

(***************************************************************************)
(* Properties                                                              *)
(***************************************************************************)

firstToken(info) == splitFirst(info.name)

\* No other field of the record has the text of the name or of its first
\* token, in any casing.
NameApart(info) ==
    \A f \in {info.dateOfBirth, info.studentId, info.school, info.grade,
              info.parentName, info.address} :
        Truthy(f) =>
            toLowerCase(f) \notin {toLowerCase(info.name), toLowerCase(firstToken(info))}

\* The name has a first token and more after it.
TwoTokenName(info) ==
    /\ Truthy(info.name)
    /\ Truthy(firstToken(info))
    /\ firstToken(info) # info.name

\* C1: for a record with a non-empty name, masking the name written in
\* any casing leaves no case-insensitive occurrence of the name and puts
\* the [STUDENT_NAME] placeholder in its place.
C1_NameMasked ==
    (/\ pc = "masked"
     /\ Truthy(studentInfo.name)
     /\ NameApart(studentInfo)
     /\ Len(pieces) = 1
     /\ pieces[1] \in NameRenderings(studentInfo))
    => /\ ~includesIgnoreCase(maskedText, studentInfo.name)
       /\ includes(maskedText, PLACEHOLDERS.STUDENT_NAME)

\* C2: when chat() is called, the content of each of the messages it is
\* called with is maskPII of the content of the caller's message at the
\* same place, under the table built from the row of the requested case;
\* the roles and the number of messages are the caller's.
C2_ChatGetsMaskedMessages ==
    pc = "chatting" =>
    \A c \in 1..Len(chatCalls) :
        \E tz \in TimeZones :
            Bind(createPIIMappings(
                     studentInfoOfCase(iep_cases(studentInfo)[body.caseId]), tz),
                 LAMBDA table :
                     /\ Len(chatCalls[c]) = Len(body.messages)
                     /\ \A i \in 1..Len(body.messages) :
                           /\ chatCalls[c][i].role = body.messages[i].role
                           /\ chatCalls[c][i].content =
                                  maskPII(body.messages[i].content, table))

\* chat() was called with two messages that both named the student, and
\* got the placeholder in both.
C2_Witness ==
    /\ pc = "chatting"
    /\ studentInfo.name = Chars("John Smith")
    /\ Len(body.messages) = 2
    /\ \A i \in 1..2 : body.messages[i].content = Chars("John Smith is happy")
    /\ Len(chatCalls) = 1
    /\ \A i \in 1..2 : chatCalls[1][i].content = Chars("[STUDENT_NAME] is happy")

\* The renderings C3 speaks of: mapped values as stored, all lowercase,
\* all uppercase, among words that name nobody.
StoredRenderings(info) ==
    {info.name, toLowerCase(info.name), toUpperCase(info.name),
     firstToken(info), info.parentName} \cup PlainWords

\* C3: validateNoExposedPII finds the output of maskPII clean, for every
\* record and every text of exact, lowercase or uppercase renderings.
C3_MaskedTextIsClean ==
    (/\ pc = "validated"
     /\ \A i \in 1..Len(pieces) : pieces[i] \in StoredRenderings(studentInfo))
    => validation.isClean

\* The pieces written as the record stores them.
AsStored(info) == {info.name, firstToken(info), info.parentName} \cup PlainWords

\* C4: a text without placeholder tokens whose mapped values are written
\* as stored comes back unchanged from maskPII followed by unmaskPII.
C4_RoundTrip ==
    (/\ pc = "unmasked"
     /\ NameApart(studentInfo)
     /\ \A i \in 1..Len(pieces) : pieces[i] \in AsStored(studentInfo))
    => unmaskedText = text

\* Is the sequence of keys in non-increasing order of length?
LongestFirst(keys) == \A i, j \in 1..Len(keys) : i < j => Len(keys[i]) >= Len(keys[j])

\* Does every key of the table stand exactly once in keys?
EachKeyOnce(keys, table) ==
    /\ Len(keys) = Len(table)
    /\ \A i \in 1..Len(table) :
          Cardinality({j \in 1..Len(keys) : keys[j] = table[i][1]}) = 1

\* What is left of the name after its first token.
remainder(info) == SubSeq(info.name, Len(firstToken(info)) + 1, Len(info.name))

\* C5: maskPII takes the keys longest first, each once; for a name 'F L'
\* every occurrence of the full name becomes [STUDENT_NAME] as a whole,
\* and [STUDENT_FIRST] is never followed by the remainder ' L'.
C5_LongestMatchFirst ==
    (/\ pc = "masked"
     /\ TwoTokenName(studentInfo)
     /\ NameApart(studentInfo)
     /\ \A i \in 1..Len(pieces) : pieces[i] \in NameRenderings(studentInfo))
    => /\ LongestFirst(sortByLengthDesc(ObjectKeys(mappings)))
       /\ EachKeyOnce(sortByLengthDesc(ObjectKeys(mappings)), mappings)
       /\ maskedText = Concat([i \in 1..Len(pieces) |-> PLACEHOLDERS.STUDENT_NAME])
       /\ ~includes(maskedText, PLACEHOLDERS.STUDENT_FIRST \o remainder(studentInfo))

\* The shape of a structured value kept, its string leaves masked.
RECURSIVE ShapeKept(_, _, _)
ShapeKept(in, out, table) ==
    IF in.t = "string" THEN out.t = "string" /\ out.v = maskPII(in.v, table)
    ELSE IF in.t = "array"
         THEN /\ out.t = "array"
              /\ Len(out.v) = Len(in.v)
              /\ \A i \in 1..Len(in.v) : ShapeKept(in.v[i], out.v[i], table)
    ELSE IF in.t = "object"
         THEN /\ out.t = "object"
              /\ Len(out.v) = Len(in.v)
              /\ \A i \in 1..Len(in.v) :
                    /\ out.v[i][1] = in.v[i][1]
                    /\ ShapeKept(in.v[i][2], out.v[i][2], table)
    ELSE out = in

\* C6: maskPIIInObject keeps nesting, array lengths and order, key sets
\* and keys; every string leaf is maskPII of the input leaf and every
\* other leaf is the input leaf.
C6_ShapePreserved ==
    pc = "objectMasked" => ShapeKept(obj, maskedObj, mappings)

\* C7: unmaskPII applied twice gives what unmaskPII applied once gives.
C7_UnmaskIdempotent ==
    pc = "restoredTwice" => unmaskedTwice = unmaskedText

\* The text with every occurrence of a token of the reverse table
\* replaced by the value the table holds for it, and nothing else
\* changed.  (No two token occurrences overlap: a token starts with its
\* only opening bracket.)
Substituted(s, reverse) ==
    LET at(p) == {e \in 1..Len(reverse) : MatchAt(s, reverse[e][1], p)}
        inside(p) == \E q \in 1..(p - 1) : \E e \in at(q) : p < q + Len(reverse[e][1])
    IN  Concat([p \in 1..Len(s) |->
                   IF at(p) # {} THEN reverse[CHOOSE e \in at(p) : TRUE][2]
                   ELSE IF inside(p) THEN <<>>
                   ELSE <<s[p]>>])

\* C8: unmaskPII replaces every exact-case occurrence of a token the
\* reverse table holds, and only those: pronoun tokens, tokens of
\* categories the record lacks, tokens in another casing and all other
\* text come out as they went in.
C8_UnresolvedTokensKept ==
    pc = "restored"
    => Bind(ReverseMappings(mappings), LAMBDA reverse :
           unmaskedText = Substituted(maskedText, reverse))

\* The value a token is to be restored to: the field as stored.
Canonical(info, token) ==
    CASE token = PLACEHOLDERS.STUDENT_NAME  -> info.name
      [] token = PLACEHOLDERS.STUDENT_FIRST -> firstToken(info)
      [] token = PLACEHOLDERS.DOB           -> info.dateOfBirth
      [] token = PLACEHOLDERS.STUDENT_ID    -> info.studentId
      [] token = PLACEHOLDERS.SCHOOL        -> info.school
      [] token = PLACEHOLDERS.GRADE         -> info.grade
      [] token = PLACEHOLDERS.PARENT_NAME   -> info.parentName
      [] token = PLACEHOLDERS.ADDRESS       -> info.address

\* C9: the reverse table maps the token of every non-empty field to the
\* value as stored, never to a case variant or derived rendering.
C9_CanonicalRestoration ==
    (pc = "mapped" /\ NameApart(studentInfo))
    => LET reverse == ReverseMappings(mappings)
       IN  /\ \A i \in 1..Len(reverse) :
                 reverse[i][2] = Canonical(studentInfo, reverse[i][1])
           /\ \A token \in DataTokens \ {PLACEHOLDERS.STUDENT_FIRST} :
                 Truthy(Canonical(studentInfo, token)) => HasKey(reverse, token)

\* C10: a single-token name and its case forms map to [STUDENT_NAME] and
\* nothing maps to [STUDENT_FIRST]; the first token of a longer name and
\* its case forms map to [STUDENT_FIRST].
C10_FirstNameToken ==
    (pc = "mapped" /\ Truthy(studentInfo.name) /\ NameApart(studentInfo))
    => IF firstToken(studentInfo) = studentInfo.name
       THEN /\ \A k \in {studentInfo.name, toLowerCase(studentInfo.name),
                         toUpperCase(studentInfo.name)} :
                  ObjGet(mappings, k) = PLACEHOLDERS.STUDENT_NAME
            /\ \A i \in 1..Len(mappings) : mappings[i][2] # PLACEHOLDERS.STUDENT_FIRST
       ELSE Truthy(firstToken(studentInfo)) =>
               \A k \in {firstToken(studentInfo), toLowerCase(firstToken(studentInfo)),
                         toUpperCase(firstToken(studentInfo))} :
                  ObjGet(mappings, k) = PLACEHOLDERS.STUDENT_FIRST

\* The keys of a table that map to a token.
KeysOf(table, token) ==
    {table[i][1] : i \in {j \in 1..Len(table) : table[j][2] = token}}

\* A value as it is, in lowercase and in uppercase.
CaseForms(value) == {value, toLowerCase(value), toUpperCase(value)}

\* The fields of a record that createPIIMappings reads, in the order of
\* its blocks, and the tokens of each.
FieldOrder ==
    <<"name", "dateOfBirth", "studentId", "school", "grade", "parentName", "address">>

FieldTokens(field) ==
    CASE field = "name"        -> {PLACEHOLDERS.STUDENT_NAME, PLACEHOLDERS.STUDENT_FIRST}
      [] field = "dateOfBirth" -> {PLACEHOLDERS.DOB}
      [] field = "studentId"   -> {PLACEHOLDERS.STUDENT_ID}
      [] field = "school"      -> {PLACEHOLDERS.SCHOOL}
      [] field = "grade"       -> {PLACEHOLDERS.GRADE}
      [] field = "parentName"  -> {PLACEHOLDERS.PARENT_NAME}
      [] field = "address"     -> {PLACEHOLDERS.ADDRESS}

\* The keys the block of a field is to produce: the forms of the name and
\* of its first token, the renderings of the date, the three case forms of
\* school and guardian, the exact value of the other fields; none for a
\* field that is empty or not given.
FieldKeys(info, field, tz) ==
    IF ~Truthy(info[field]) THEN {}
    ELSE CASE field = "name" -> CaseForms(info.name) \cup CaseForms(firstToken(info))
           [] field = "dateOfBirth" ->
                  {info.dateOfBirth}
                  \cup (IF IsIsoDate(info.dateOfBirth)
                        THEN {toLocaleDateString(ParseDate(info.dateOfBirth), tz),
                              toISODate(ParseDate(info.dateOfBirth))}
                        ELSE {})
           [] field \in {"school", "parentName"} -> CaseForms(info[field])
           [] OTHER -> {info[field]}

\* Does a block after the one of the field at place p produce the key?
WrittenLater(info, p, k) ==
    \E q \in (p + 1)..Len(FieldOrder) : k \in FieldKeys(info, FieldOrder[q], "utc")

calendarRendering(dateOfBirth) == toLocaleDateString(ParseDate(dateOfBirth), "utc")

\* C12: for a date of birth that parses, the stored string, the locale
\* rendering of that day and the ISO rendering are keys mapped to
\* [DATE_OF_BIRTH], and a text showing any of the three does not show it
\* after maskPII; for one that does not parse, the stored string is the
\* only key mapped to [DATE_OF_BIRTH].
C12_DateOfBirthCoverage ==
    (pc = "mapped" /\ Truthy(studentInfo.dateOfBirth)) =>
    IF IsIsoDate(studentInfo.dateOfBirth)
    THEN \A r \in {studentInfo.dateOfBirth,
                   calendarRendering(studentInfo.dateOfBirth),
                   toISODate(ParseDate(studentInfo.dateOfBirth))} :
             /\ ObjGet(mappings, r) = PLACEHOLDERS.DOB
             /\ ~includes(maskPII(r, mappings), r)
    ELSE KeysOf(mappings, PLACEHOLDERS.DOB) = {studentInfo.dateOfBirth}

\* The record without a field.
Without(info, field) == [info EXCEPT ![field] = Undefined]

\* C13: createPIIMappings returns a table for every record; a field that
\* is empty or not given has no key under its token, and the table is the
\* one of the record without that field; with only a name given, every
\* key is a form of the name or of its first token.
C13_EmptyFieldsAddNothing ==
    /\ pc = "start" =>
          \A tz \in TimeZones : Len(createPIIMappings(studentInfo, tz)) \in Nat
    /\ pc = "mapped" =>
          /\ \A i \in 1..Len(mappings) :
                mappings[i][1] \notin {Undefined, Null} /\ mappings[i][2] \in DataTokens
          /\ \A p \in 1..Len(FieldOrder) :
                Bind(FieldOrder[p], LAMBDA field :
                    ~Truthy(studentInfo[field]) =>
                        /\ \A token \in FieldTokens(field) : KeysOf(mappings, token) = {}
                        /\ \E tz \in TimeZones :
                              mappings = createPIIMappings(Without(studentInfo, field), tz))
          /\ (\A p \in 2..Len(FieldOrder) : ~Truthy(studentInfo[FieldOrder[p]]))
                 => \A i \in 1..Len(mappings) :
                        mappings[i][1] \in FieldKeys(studentInfo, "name", "utc")

\* The table of a record with a name and nothing else: the three forms of
\* the name and of the first name.
C13_Witness ==
    /\ pc = "mapped"
    /\ studentInfo.name = Chars("John Smith")
    /\ \A p \in 2..Len(FieldOrder) : ~Truthy(studentInfo[FieldOrder[p]])
    /\ Len(mappings) = 6
    /\ KeysOf(mappings, PLACEHOLDERS.STUDENT_FIRST)
           = {Chars("John"), Chars("john"), Chars("JOHN")}

\* The place in FieldOrder of the last block that produces a key.
LastField(info, k, tz) ==
    CHOOSE p \in 1..Len(FieldOrder) :
        /\ k \in FieldKeys(info, FieldOrder[p], tz)
        /\ ~\E q \in (p + 1)..Len(FieldOrder) : k \in FieldKeys(info, FieldOrder[q], tz)

\* C14: the table holds every key once; a key has a token of the last
\* field, in the order of the blocks, that produces it; every key has a
\* token of the vocabulary.
C14_LastWriteWins ==
    pc = "mapped" =>
    \E tz \in TimeZones :
        /\ \A i, j \in 1..Len(mappings) : i # j => mappings[i][1] # mappings[j][1]
        /\ \A i \in 1..Len(mappings) :
              /\ mappings[i][2] \in DataTokens
              /\ \E p \in 1..Len(FieldOrder) :
                    mappings[i][1] \in FieldKeys(studentInfo, FieldOrder[p], tz)
              /\ mappings[i][2]
                     \in FieldTokens(FieldOrder[LastField(studentInfo, mappings[i][1], tz)])

\* Student number and grade are both "10", school and guardian both
\* "Elm", the address is "elm": each key is there once, under the token
\* of the later field.
C14_Witness ==
    /\ pc = "mapped"
    /\ studentInfo.studentId = Chars("10") /\ studentInfo.grade = Chars("10")
    /\ studentInfo.school = Chars("Elm") /\ studentInfo.parentName = Chars("Elm")
    /\ studentInfo.address = Chars("elm")
    /\ ObjGet(mappings, Chars("10")) = PLACEHOLDERS.GRADE
    /\ ObjGet(mappings, Chars("Elm")) = PLACEHOLDERS.PARENT_NAME
    /\ ObjGet(mappings, Chars("ELM")) = PLACEHOLDERS.PARENT_NAME
    /\ ObjGet(mappings, Chars("elm")) = PLACEHOLDERS.ADDRESS
    /\ KeysOf(mappings, PLACEHOLDERS.STUDENT_ID) = {}
    /\ KeysOf(mappings, PLACEHOLDERS.SCHOOL) = {}

\* C15: exposedValues lists every key longer than 2 characters that the
\* text holds in some casing, each once, and no other value; a key of 1
\* or 2 characters is not listed although the text holds it; isClean is
\* true exactly when the list is empty.
C15_ExactLeakReport ==
    pc \in {"checked", "validated"} =>
    Bind(IF pc = "checked" THEN text ELSE maskedText, LAMBDA checked :
        Bind({mappings[i][1] : i \in 1..Len(mappings)}, LAMBDA keys :
            Bind({k \in keys : Len(k) > 2 /\ includesIgnoreCase(checked, k)}, LAMBDA leaks :
                /\ {validation.exposedValues[i] : i \in 1..Len(validation.exposedValues)}
                       = leaks
                /\ Len(validation.exposedValues) = Cardinality(leaks)
                /\ \A k \in keys :
                      Len(k) <= 2 =>
                          \A i \in 1..Len(validation.exposedValues) :
                              validation.exposedValues[i] # k
                /\ validation.isClean <=> leaks = {})))

\* A text that holds the two-character grade and the name: the three
\* forms of the name and of the first name are listed, the grade is not.
C15_Witness ==
    /\ pc = "checked"
    /\ studentInfo.grade = Chars("10")
    /\ text = Chars("10Den Lee")
    /\ HasKey(mappings, Chars("10"))
    /\ ~validation.isClean
    /\ Len(validation.exposedValues) = 6
    /\ \A i \in 1..6 : validation.exposedValues[i] # Chars("10")

\* The last call, made again with the arguments as they are now, gives
\* the result it gave; the text handed in is the text that was put
\* together; the table, when built, is the one createPIIMappings gives.
LastCallRepeats ==
    /\ pc = "mapped" =>
          \E tz \in TimeZones : mappings = createPIIMappings(studentInfo, tz)
    /\ pc \in {"masked", "validated", "unmasked", "checked"} => text = Concat(pieces)
    /\ pc \in {"generated", "restored", "restoredTwice"} => maskedText = Concat(pieces)
    /\ pc = "masked" => maskedText = maskPII(text, mappings)
    /\ pc = "validated" => validation = validateNoExposedPII(maskedText, mappings)
    /\ pc = "checked" => validation = validateNoExposedPII(text, mappings)
    /\ pc \in {"unmasked", "restored"} => unmaskedText = unmaskPII(maskedText, mappings)
    /\ pc = "restoredTwice" => unmaskedTwice = unmaskPII(unmaskedText, mappings)
    /\ pc = "objectMasked" => maskedObj = maskPIIInObject(obj, mappings)

\* A call leaves the table and the text it was handed as they were.
ArgumentsUntouched ==
    /\ pc # "start" => mappings' = mappings
    /\ pc \in {"masked", "validated"} => text' = text /\ maskedText' = maskedText
    /\ pc \in {"generated", "restored"} => maskedText' = maskedText
    /\ pc = "restored" => unmaskedText' = unmaskedText

OwnedRows ==
    {row \in {iep_cases(studentInfo)[id] : id \in CaseIds} :
        row.id = body.caseId /\ row.teacher_id = user}

\* Where the route stands, what it has answered and what it has done.
AnsweredInOrder ==
    /\ response.status = 401 => user = Null /\ chatCalls = <<>> /\ audit_log = <<>>
    /\ (pc = "responded" /\ user = Null) => response.status = 401
    /\ response.status = 404 =>
          user # Null /\ OwnedRows = {} /\ chatCalls = <<>> /\ audit_log = <<>>
    /\ (pc = "responded" /\ user # Null /\ OwnedRows = {}) => response.status = 404
    /\ chatCalls # <<>> => user # Null /\ iepCase \in OwnedRows /\ Len(chatCalls) = 1
    /\ audit_log # <<>> =>
          /\ Len(audit_log) = 1
          /\ audit_log[1].action = "ai_chat"
          /\ audit_log[1].teacher_id = user
          /\ chatCalls # <<>>
          /\ response.status = 200
    /\ response.status = 500 => audit_log = <<>>

\* chat() is called from the found case only, the audit row is written
\* only when chat() has returned, and a chat() that throws is answered
\* with 500.
CalledInOrder ==
    /\ chatCalls' # chatCalls => pc = "found" /\ user # Null
    /\ audit_log' # audit_log => pc = "chatted"
    /\ (pc = "chatting" /\ pc' = "responded") =>
          response'.status = 500 /\ audit_log' = <<>>

\* C17: without a user the answer is 401, without a case of that id and
\* that teacher it is 404, and in both cases chat() is not called and
\* nothing is written to audit_log; the 'ai_chat' row is written only
\* after chat() returned; when chat() throws the answer is 500 and there
\* is no audit row.
C17_NoCallBeforeOwnership == []AnsweredInOrder /\ [][CalledInOrder]_vars

\* The signed-in teacher asked for the case of the other teacher, with a
\* message: the answer is 404, chat() was not called, nothing was logged.
C17_Witness ==
    /\ pc = "responded"
    /\ user = Teacher
    /\ body.caseId = "case-2"
    /\ Len(body.messages) > 0
    /\ response.status = 404
    /\ chatCalls = <<>>
    /\ audit_log = <<>>

\* Once chat() is called the messages it got are the masked messages, and
\* the validation is the one of the masked last message, clean or not.
SentAsMasked ==
    pc \in {"chatting", "chatted"} \/ response.status = 200 =>
        /\ chatCalls = <<maskedMessages>>
        /\ maskedMessages = maskMessages(body.messages, piiMappings)
        /\ validation = validateNoExposedPII(
                            maskedMessages[Len(maskedMessages)].content, piiMappings)

\* With a message the route goes on to chat() whatever the validation
\* found, and answers 200 when chat() has returned.
GoesOn ==
    /\ (pc = "found" /\ Len(body.messages) > 0) =>
          /\ pc' = "chatting"
          /\ chatCalls' = Append(chatCalls, maskMessages(body.messages, piiMappings'))
    /\ pc = "chatted" => response'.status = 200

\* C18: validateNoExposedPII is applied to the masked last message;
\* whether it finds the message clean or not, chat() gets the masked
\* messages as they are and the request goes on to its normal answer.
C18_DetectionOnly == []SentAsMasked /\ [][GoesOn]_vars

\* The validation found a leak in the masked last message; chat() got the
\* masked messages all the same and the answer is 200.
C18_Witness ==
    /\ pc = "responded"
    /\ response.status = 200
    /\ ~validation.isClean
    /\ chatCalls = <<maskedMessages>>
    /\ Len(audit_log) = 1

\* C19: the table of a record that the form accepts has no empty key, so
\* no key that maskPII searches for is empty.
C19_NoEmptyKey ==
    (pc = "mapped" /\ validate(studentInfo)) =>
        /\ ~HasKey(mappings, <<>>)
        /\ \A i \in 1..Len(mappings) : Len(escapeRegExp(mappings[i][1])) > 0

\* Does one of the data tokens stand in s from position p on?
TokenAt(s, p) == \E token \in DataTokens : MatchAt(s, token, p)

\* Does one of the data tokens stand in s up to position p?
TokenTo(s, p) ==
    \E token \in DataTokens : p >= Len(token) /\ MatchAt(s, token, p - Len(token) + 1)

\* C20: in the output of maskPII for a text without brackets every opening
\* bracket begins a placeholder token and every closing bracket ends one:
\* each inserted placeholder is there intact and none stands inside the
\* text of another.
C20_PlaceholdersIntact ==
    (pc = "masked" /\ \A i \in 1..Len(text) : text[i] \notin {"[", "]"}) =>
        \A p \in 1..Len(maskedText) :
            /\ maskedText[p] = "[" => TokenAt(maskedText, p)
            /\ maskedText[p] = "]" => TokenTo(maskedText, p)

\* C21: in a text put together from whole tokens and words, unmaskPII
\* puts in the place of every token of the reverse table exactly the
\* characters of its real value, whatever characters the value holds, and
\* leaves every other piece as it was.
C21_VerbatimRestoration ==
    (pc = "restored" /\ \A i \in 1..Len(pieces) : pieces[i] \in WholePieces) =>
    Bind(ReverseMappings(mappings), LAMBDA reverse :
        unmaskedText = Concat([i \in 1..Len(pieces) |->
                                  IF HasKey(reverse, pieces[i])
                                  THEN ObjGet(reverse, pieces[i])
                                  ELSE pieces[i]]))

\* The fields of the record that identify the student or the guardian.
IdentifyingFields ==
    {"name", "dateOfBirth", "studentId", "school", "grade", "parentName", "parentEmail",
     "address"}

\* C22: when chat() is called, every non-empty identifying field of the
\* record the route handed to createPIIMappings, parentEmail included, is
\* a key of the table, and maskPII leaves no occurrence of the value in a
\* text that shows it.
C22_EveryFieldMapped ==
    pc = "chatting" =>
    Bind(studentInfoOfCase(iepCase), LAMBDA info :
        \A field \in IdentifyingFields :
            Truthy(info[field]) =>
                /\ HasKey(piiMappings, info[field])
                /\ ~includes(maskPII(info[field], piiMappings), info[field]))

\* The place of a step in STEPS, counted from 1.
StepIndex(step) == CHOOSE i \in 1..Len(STEPS) : STEPS[i] = step

\* The steps of a list, as a set.
StepsIn(steps) == {steps[i] : i \in 1..Len(steps)}

\* What a call of nextStep does to the state it was called in.
NextStepFrame ==
    event'.handler = "nextStep" =>
        IF StepIndex(state.currentStep) < Len(STEPS)
        THEN /\ state'.currentStep = STEPS[StepIndex(state.currentStep) + 1]
             /\ state'.completedSteps =
                    IF state.currentStep \in StepsIn(state.completedSteps)
                    THEN state.completedSteps
                    ELSE state.completedSteps \o <<state.currentStep>>
             /\ state'.case = state.case
        ELSE state' = state

\* What a call of prevStep does.
PrevStepFrame ==
    event'.handler = "prevStep" =>
        IF StepIndex(state.currentStep) > 1
        THEN state' = [state EXCEPT !.currentStep = STEPS[StepIndex(state.currentStep) - 1]]
        ELSE state' = state

\* What a call of goToStep does.
GoToStepFrame ==
    event'.handler = "goToStep" =>
        /\ state'.currentStep \in StepIds
        /\ state' = [state EXCEPT !.currentStep = event'.queued[1].currentStep]

\* What a call of updateCase does: the keys of the updates get their
\* values, every other key of the case keeps its own.
UpdateCaseFrame ==
    event'.handler = "updateCase" =>
        /\ state'.currentStep = state.currentStep
        /\ state'.completedSteps = state.completedSteps
        /\ \A i \in 1..Len(event'.queued[1].updates) :
              ObjGet(state'.case, event'.queued[1].updates[i][1])
                  = event'.queued[1].updates[i][2]
        /\ \A i \in 1..Len(state.case) :
              HasKey(event'.queued[1].updates, state.case[i][1])
                  \/ ObjGet(state'.case, state.case[i][1]) = state.case[i][2]

\* C23: nextStep on a step other than the last moves to the step that
\* follows in STEPS and adds the step it leaves to completedSteps unless
\* it is there; nextStep on the last step and prevStep on the first change
\* nothing; prevStep moves to the step before; prevStep and goToStep keep
\* completedSteps and case; updateCase changes case only.
C23_NavigationFrames ==
    [][NextStepFrame /\ PrevStepFrame /\ GoToStepFrame /\ UpdateCaseFrame]_vars

\* nextStep has left a step that was completed before: the list of the
\* completed steps is as it was.
C23_Witness ==
    /\ event.handler = "nextStep"
    /\ state.currentStep = "upload-documents"
    /\ state.completedSteps = <<"student-info", "upload-documents">>

\* C24: in every state of the wizard currentStep is a step of STEPS,
\* completedSteps has no step twice and is the first k steps of STEPS,
\* currentStep is none of the steps after the first k + 1, and the last
\* step is never completed.
C24_ProgressShape ==
    LET k == Len(state.completedSteps)
    IN  /\ state.currentStep \in StepIds
        /\ Cardinality(StepsIn(state.completedSteps)) = k
        /\ k <= Len(STEPS)
        /\ state.completedSteps = SubSeq(STEPS, 1, k)
        /\ StepIndex(state.currentStep) - 1 <= k
        /\ "review" \notin StepsIn(state.completedSteps)

\* Every step but the last is completed, the wizard has gone back to a
\* step in the middle by a click on the progress bar.
C24_Witness ==
    /\ event.handler = "goToStep"
    /\ state.currentStep = "plep"
    /\ Len(state.completedSteps) = Len(STEPS) - 1

\* The fields the student-info form requires.
RequiredFields == {"name", "dateOfBirth", "school", "grade", "parentName"}

\* What a submission of the form does: with both calls queued, the case
\* has the record, keeps its other keys, and the wizard is on the second
\* step with the first one completed; with a required field empty,
\* nothing is queued and nothing changes.
SubmitFrame ==
    event'.handler = "handleSubmit" =>
        /\ event'.queued # <<>> =>
              /\ Len(event'.queued) = 2
              /\ event'.queued[1].fn = "updateCase"
              /\ event'.queued[2].fn = "nextStep"
              /\ ObjGet(state'.case, Chars("studentInfo")) = event'.info
              /\ \A i \in 1..Len(state.case) :
                    state.case[i][1] = Chars("studentInfo")
                        \/ ObjGet(state'.case, state.case[i][1]) = state.case[i][2]
              /\ state'.currentStep = "upload-documents"
              /\ "student-info" \in StepsIn(state'.completedSteps)
        /\ (\E field \in RequiredFields : event'.info[field] = <<>>) =>
              /\ event'.queued = <<>>
              /\ state' = state
        /\ (\A field \in RequiredFields : Truthy(trim(event'.info[field]))) =>
              event'.queued # <<>>

\* C25: onUpdate(info) and onNext() called in one event of the submit
\* handler leave case.studentInfo = info, currentStep = 'upload-documents'
\* and 'student-info' completed, neither update undoing the other; with a
\* required field empty the handler calls neither.
C25_SubmitKeepsBoth == [][SubmitFrame]_vars

\* The form was submitted for a case that had an id: the case has the
\* record and its id, the wizard is on the second step.
C25_Witness ==
    /\ event.handler = "handleSubmit"
    /\ Len(event.queued) = 2
    /\ state.currentStep = "upload-documents"
    /\ state.completedSteps = <<"student-info">>
    /\ ObjGet(state.case, Chars("studentInfo")) = event.info
    /\ ObjGet(state.case, Chars("id")) = Chars("case-1")

\* The slot of the event after the step, and the other slot.
SlotAfter == IF event'.type = "previousIEP" THEN previousIEP' ELSE testingData'
OtherSlotKept ==
    IF event'.type = "previousIEP" THEN testingData' = testingData
    ELSE previousIEP' = previousIEP

\* What a call of uploadFile does before it waits for the response.
UploadCallFrame ==
    (event'.handler = "uploadFile" /\ event'.step = "call") =>
        /\ OtherSlotKept
        /\ event'.onUpdate = <<>>
        /\ IF slotOf(event'.type).file = Null \/ caseId = Undefined
           THEN /\ SlotAfter = slotOf(event'.type)
                /\ pending' = pending
           ELSE /\ SlotAfter.uploading
                /\ SlotAfter.error = Null
                /\ SlotAfter.file = slotOf(event'.type).file
                /\ SlotAfter.uploaded = slotOf(event'.type).uploaded
                /\ SlotAfter.extractedText = slotOf(event'.type).extractedText
                /\ pending'[event'.type] = pending[event'.type] + 1

\* What uploadFile does when the response is there or the request failed.
UploadResumeFrame ==
    (event'.handler = "uploadFile" /\ event'.step = "resume") =>
        /\ OtherSlotKept
        /\ SlotAfter.file = slotOf(event'.type).file
        /\ ~SlotAfter.uploading
        /\ IF ~event'.outcome.rejected /\ event'.outcome.ok
           THEN /\ SlotAfter.uploaded
                /\ SlotAfter.extractedText = event'.outcome.result.extractedText
                /\ SlotAfter.error = slotOf(event'.type).error
                /\ Len(event'.onUpdate) = 1
                /\ event'.onUpdate[1] =
                       IF event'.type = "previousIEP"
                       THEN <<<<Chars("previousIEPPath"), event'.outcome.result.fileName>>,
                              <<Chars("previousIEPText"),
                                event'.outcome.result.extractedText>>>>
                       ELSE <<<<Chars("testingDataPath"), event'.outcome.result.fileName>>,
                              <<Chars("testingDataText"),
                                event'.outcome.result.extractedText>>>>
           ELSE /\ Truthy(SlotAfter.error)
                /\ SlotAfter.uploaded = slotOf(event'.type).uploaded
                /\ SlotAfter.extractedText = slotOf(event'.type).extractedText
                /\ event'.onUpdate = <<>>

\* C26: uploadFile does nothing for a slot without a file or without a
\* case id; otherwise it sets uploading and clears error; on an ok
\* response it ends the upload with uploaded set and the returned text
\* and calls onUpdate once with the returned file name and text under the
\* keys of the slot's type; on a response that is not ok or a thrown
\* error it ends the upload with an error message, keeps uploaded and
\* extractedText and does not call onUpdate.
C26_UploadTransitions == [][UploadCallFrame /\ UploadResumeFrame]_vars

\* An upload of testing data failed in a slot that had been uploaded
\* before: the slot keeps uploaded and its text and shows the message.
C26_Witness ==
    /\ event.handler = "uploadFile"
    /\ event.step = "resume"
    /\ event.type = "testingData"
    /\ ~event.outcome.ok
    /\ testingData.uploaded
    /\ testingData.extractedText = Chars("Reads at grade 3")
    /\ testingData.error = Chars("Case not found")
    /\ ~testingData.uploading

====
